---------------------------- MODULE Spec2Model ----------------------------
(***************************************************************************)
(* PowerDNS Web UI backend (main.py): the configuration provider           *)
(* get_pdns_config, the /api/config handler and the /api/pdns/{path}       *)
(* proxy handler proxy_to_pdns.                                            *)
(*                                                                         *)
(* Text (Python str and bytes) is a sequence of tokens.  A token is a      *)
(* piece of text that the program never looks into: the characters the     *)
(* program or its libraries do look at ("/", "?", the JSON punctuation,    *)
(* the JSON literals) are tokens of their own.                             *)
(***************************************************************************)
EXTENDS Naturals, Sequences, FiniteSets

VARIABLES
    env,          \* os.environ: a function from the names that are set
    pc,           \* pc[r]: where invocation r of proxy_to_pdns stands
    request,      \* request[r]: the inbound request of invocation r
    cfg,          \* cfg[r]: the local variable cfg (line 50)
    target_url,   \* target_url[r]: the local variable target_url (51-55)
    sent,         \* sent[r]: the outbound requests issued for r, in order
    upstream,     \* upstream[r]: how the awaited client.request ended
    responses,    \* responses[r]: the responses returned for r, in order
    start_env,    \* start_env[r]: os.environ when invocation r began
    config_resp,  \* the last answer of GET /api/config
    config_env    \* os.environ when that answer was computed

vars == <<env, pc, request, cfg, target_url, sent, upstream, responses,
          start_env, config_resp, config_env>>

(***************************************************************************)
(* Bounds of the model.                                                    *)
(***************************************************************************)
NumReqs == 2

Reqs == 1..NumReqs

(***************************************************************************)
(* str helpers.                                                            *)
(***************************************************************************)

\* s.rstrip(c): s without its trailing tokens c.
RECURSIVE rstrip(_, _)
rstrip(s, c) ==
    IF s # <<>> /\ s[Len(s)] = c
    THEN rstrip(SubSeq(s, 1, Len(s) - 1), c)
    ELSE s

\* sub in s, for str: sub occurs in s as a contiguous piece.
IsInfix(sub, s) ==
    \E i \in 0..(Len(s) - Len(sub)) :
        SubSeq(s, i + 1, i + Len(sub)) = sub

(***************************************************************************)
(* The process environment and get_pdns_config.                            *)
(***************************************************************************)
EnvNames == {"PDNS_API_URL", "PDNS_API_KEY", "PDNS_SERVER_ID"}

\* os.getenv(name, default)
getenv(e, name, default) ==
    IF name \in DOMAIN e THEN e[name] ELSE default

setenv(e, name, value) ==
    [n \in (DOMAIN e) \cup {name} |-> IF n = name THEN value ELSE e[n]]

unsetenv(e, name) ==
    [n \in (DOMAIN e) \ {name} |-> e[n]]

DefaultUrl == <<"http://localhost:8081">>
DefaultKey == <<"changeme">>
DefaultServerId == <<"localhost">>

get_pdns_config(e) ==
    [url       |-> rstrip(getenv(e, "PDNS_API_URL", DefaultUrl), "/"),
     key       |-> getenv(e, "PDNS_API_KEY", DefaultKey),
     server_id |-> getenv(e, "PDNS_SERVER_ID", DefaultServerId)]


(***************************************************************************)
(* Python values: what response.json() yields and what JSONResponse is     *)
(* given as content.  One record shape for all of them: t is the Python    *)
(* type, v the text of a scalar, items the elements of a list or the       *)
(* [k, val] entries of a dict in insertion order.                          *)
(***************************************************************************)
PyNone == [t |-> "None", v |-> <<>>, items |-> <<>>]

PyStr(s) == [t |-> "str", v |-> s, items |-> <<>>]

PyInt(lexeme) == [t |-> "int", v |-> <<lexeme>>, items |-> <<>>]

PyBool(lexeme) == [t |-> "bool", v |-> <<lexeme>>, items |-> <<>>]

\* float("nan"), float("inf"), float("-inf")
PyFloat(lexeme) == [t |-> "float", v |-> <<lexeme>>, items |-> <<>>]

PyList(xs) == [t |-> "list", v |-> <<>>, items |-> xs]

PyDict(entries) == [t |-> "dict", v |-> <<>>, items |-> entries]

\* d[k] = x on the entries of a dict: an existing key keeps its place.
dict_set(entries, k, x) ==
    IF \E i \in 1..Len(entries) : entries[i].k = k
    THEN [i \in 1..Len(entries) |->
            IF entries[i].k = k THEN [k |-> k, val |-> x] ELSE entries[i]]
    ELSE Append(entries, [k |-> k, val |-> x])

(***************************************************************************)
(* Bytes and their decoding.  InvalidByte is a byte that is not UTF-8.     *)
(***************************************************************************)
InvalidByte == "<0xFF>"
ReplacementChar == "<U+FFFD>"

\* response.text: the body decoded with errors="replace".
text_of(body) ==
    [i \in 1..Len(body) |->
        IF body[i] = InvalidByte THEN ReplacementChar ELSE body[i]]

(***************************************************************************)
(* json.loads, as response.json() calls it on the body: a strict decode,   *)
(* then one JSON value and nothing after it.  Python's decoder accepts     *)
(* the literals NaN, Infinity and -Infinity.                               *)
(***************************************************************************)
Quote == "\""
\* The escape \ud800 inside a JSON string, and the unpaired surrogate it
\* stands for.
SurrogateEscape == "\\ud800"
LoneSurrogate == "<U+D800>"
JsonInts == {"0", "1", "2"}
JsonNonFinite == {"NaN", "Infinity", "-Infinity"}

ParseFail == [ok |-> FALSE, val |-> PyNone, next |-> 0]

ParseOk(x, n) == [ok |-> TRUE, val |-> x, next |-> n]

\* The characters of a JSON string's text.
unescape(s) ==
    [i \in 1..Len(s) |->
        IF s[i] = SurrogateEscape THEN LoneSurrogate ELSE s[i]]

\* The string whose opening quote is s[i].
parse_string(s, i) ==
    LET closing == {j \in (i + 1)..Len(s) : s[j] = Quote}
    IN  IF closing = {}
        THEN ParseFail
        ELSE LET j == CHOOSE k \in closing : \A m \in closing : k <= m
             IN  ParseOk(PyStr(unescape(SubSeq(s, i + 1, j - 1))), j + 1)

RECURSIVE parse_value(_, _)
RECURSIVE parse_array(_, _, _)
RECURSIVE parse_object(_, _, _)

parse_value(s, i) ==
    IF i > Len(s)
    THEN ParseFail
    ELSE CASE s[i] = "null" -> ParseOk(PyNone, i + 1)
           [] s[i] \in {"true", "false"} -> ParseOk(PyBool(s[i]), i + 1)
           [] s[i] \in JsonInts -> ParseOk(PyInt(s[i]), i + 1)
           [] s[i] \in JsonNonFinite -> ParseOk(PyFloat(s[i]), i + 1)
           [] s[i] = Quote -> parse_string(s, i)
           [] s[i] = "[" ->
                IF i < Len(s) /\ s[i + 1] = "]"
                THEN ParseOk(PyList(<<>>), i + 2)
                ELSE parse_array(s, i + 1, <<>>)
           [] s[i] = "{" ->
                IF i < Len(s) /\ s[i + 1] = "}"
                THEN ParseOk(PyDict(<<>>), i + 2)
                ELSE parse_object(s, i + 1, <<>>)
           [] OTHER -> ParseFail

\* The elements of a list from s[i] on; acc holds those already read.
parse_array(s, i, acc) ==
    LET e == parse_value(s, i)
    IN  IF ~e.ok \/ e.next > Len(s)
        THEN ParseFail
        ELSE CASE s[e.next] = "," ->
                    parse_array(s, e.next + 1, Append(acc, e.val))
               [] s[e.next] = "]" ->
                    ParseOk(PyList(Append(acc, e.val)), e.next + 1)
               [] OTHER -> ParseFail

\* The members of an object from s[i] on; acc holds those already read.
parse_object(s, i, acc) ==
    IF i > Len(s) \/ s[i] # Quote
    THEN ParseFail
    ELSE LET k == parse_string(s, i)
         IN  IF ~k.ok \/ k.next > Len(s) \/ s[k.next] # ":"
             THEN ParseFail
             ELSE LET e == parse_value(s, k.next + 1)
                  IN  IF ~e.ok \/ e.next > Len(s)
                      THEN ParseFail
                      ELSE CASE s[e.next] = "," ->
                                  parse_object(s, e.next + 1,
                                               dict_set(acc, k.val.v, e.val))
                             [] s[e.next] = "}" ->
                                  ParseOk(PyDict(dict_set(acc, k.val.v, e.val)),
                                          e.next + 1)
                             [] OTHER -> ParseFail

\* response.json(): [raised, val]; it raises UnicodeDecodeError on bytes
\* that are not UTF-8 and JSONDecodeError on text that is not one value.
json_loads(body) ==
    IF \E i \in 1..Len(body) : body[i] = InvalidByte
    THEN [raised |-> TRUE, val |-> PyNone]
    ELSE LET r == parse_value(body, 1)
         IN  IF r.ok /\ r.next = Len(body) + 1
             THEN [raised |-> FALSE, val |-> r.val]
             ELSE [raised |-> TRUE, val |-> PyNone]

\* Whether serialising x fails: json.dumps(allow_nan=False) raises
\* ValueError on a float that is NaN or infinite, and encoding the result
\* as UTF-8 raises UnicodeEncodeError on an unpaired surrogate.
RECURSIVE render_raises(_)
render_raises(x) ==
    CASE x.t = "float" -> TRUE
      [] x.t = "str" -> \E i \in 1..Len(x.v) : x.v[i] = LoneSurrogate
      [] x.t = "list" ->
            \E i \in 1..Len(x.items) : render_raises(x.items[i])
      [] x.t = "dict" ->
            \E i \in 1..Len(x.items) :
                \/ render_raises(PyStr(x.items[i].k))
                \/ render_raises(x.items[i].val)
      [] OTHER -> FALSE

(***************************************************************************)
(* Responses of the handlers.  A response is the status code and the       *)
(* content object handed to JSONResponse; via tells a response the handler *)
(* returned from an HTTPException it raised, which FastAPI answers with    *)
(* the content {"detail": detail}.                                         *)
(***************************************************************************)
NoResponse == [status_code |-> 0, content |-> PyNone, via |-> "none"]

\* JSONResponse(content=..., status_code=...): the constructor serialises
\* the content and raises when that fails.
JSONResponse(content, status_code) ==
    [raised |-> render_raises(content),
     exc    |-> "ValueError",
     msg    |-> <<"content is not JSON serialisable">>,
     resp   |-> [status_code |-> status_code, content |-> content,
                 via |-> "JSONResponse"]]

HTTPException(status_code, detail) ==
    [status_code |-> status_code,
     content     |-> PyDict(<<[k |-> <<"detail">>, val |-> PyStr(detail)]>>),
     via         |-> "HTTPException"]

Raise(exc, msg) ==
    [raised |-> TRUE, exc |-> exc, msg |-> msg, resp |-> NoResponse]

(***************************************************************************)
(* The exception classes the awaited call can raise, each with the classes *)
(* it is an instance of (httpx's hierarchy, Python's built-ins).           *)
(***************************************************************************)
ExcClasses ==
    {"ConnectError", "ConnectTimeout", "ReadTimeout", "ReadError",
     "UnsupportedProtocol"}

mro(exc) ==
    CASE exc = "ConnectError" ->
            {"ConnectError", "NetworkError", "TransportError", "Exception"}
      [] exc = "ConnectTimeout" ->
            {"ConnectTimeout", "TimeoutException", "TransportError",
             "Exception"}
      [] exc = "ReadTimeout" ->
            {"ReadTimeout", "TimeoutException", "TransportError", "Exception"}
      [] exc = "ReadError" ->
            {"ReadError", "NetworkError", "TransportError", "Exception"}
      [] exc = "UnsupportedProtocol" ->
            {"UnsupportedProtocol", "TransportError", "Exception"}
      [] exc = "ValueError" -> {"ValueError", "Exception"}
      [] OTHER -> {exc, "Exception"}

isinstance(exc, cls) == cls \in mro(exc)

(***************************************************************************)
(* proxy_to_pdns.                                                          *)
(***************************************************************************)
Methods == {"GET", "POST", "PUT", "PATCH", "DELETE"}

NoRequest ==
    [method |-> "", path |-> <<>>, query |-> <<>>, body |-> <<>>,
     headers |-> <<>>]

NoOutcome ==
    [raised |-> FALSE, exc |-> "", msg |-> <<>>, status_code |-> 0,
     content_type |-> <<>>, body |-> <<>>]

\* d[k] = x on a dict with string keys.
setitem(d, k, x) ==
    [n \in (DOMAIN d) \cup {k} |-> IF n = k THEN x ELSE d[n]]

\* target_url_of that appends "?" and the query string also when it is
\* empty.
target_url_of_always_query(c, path, query) ==
    c.url \o <<"/api/v1/">> \o path \o <<"?">> \o query

\* Lines 51-55: the URL of the outbound request.
target_url_of(c, path, query) ==
    LET url == c.url \o <<"/api/v1/">> \o path
    IN  IF query # <<>> THEN url \o <<"?">> \o query ELSE url

\* headers that starts from the inbound headers.
headers_forwarding(c, req) ==
    LET h == setitem(setitem(req.headers, "X-API-Key", c.key),
                     "Accept", <<"application/json">>)
    IN  IF req.body # <<>>
        THEN setitem(h, "Content-Type", <<"application/json">>)
        ELSE h

\* Lines 59-64: the headers of the outbound request; req.body is the body
\* read at line 57.
headers(c, req) ==
    LET h == [n \in {"X-API-Key", "Accept"} |->
                IF n = "X-API-Key" THEN c.key ELSE <<"application/json">>]
    IN  IF req.body # <<>>
        THEN setitem(h, "Content-Type", <<"application/json">>)
        ELSE h

\* client_request with a second attempt.
client_request_retry(log, method, url, hdrs, content) ==
    LET req == [method |-> method, url |-> url, headers |-> hdrs,
                content |-> content]
    IN  Append(Append(log, req), req)

\* Lines 69-75: the one call of client.request, recorded in the log of
\* outbound requests.
client_request(log, method, url, hdrs, content) ==
    Append(log, [method |-> method, url |-> url, headers |-> hdrs,
                 content |-> content])

\* json_branch that treats an upstream error status as a failure
\* (response.raise_for_status()).
json_branch_raise_for_status(o) ==
    LET data == json_loads(o.body)
    IN  IF o.status_code >= 400
        THEN Raise("HTTPStatusError", <<"upstream error">>)
        ELSE IF data.raised
        THEN Raise("JSONDecodeError", <<>>)
        ELSE JSONResponse(data.val, o.status_code)

\* Lines 82-86: the inner try; the return at line 84 is inside it.
json_branch(o) ==
    LET data == json_loads(o.body)
    IN  IF data.raised
        THEN Raise("JSONDecodeError", <<>>)
        ELSE JSONResponse(data.val, o.status_code)

\* try_block without the inner try: a failure of the JSON rule propagates.
try_block_unguarded(o) ==
    IF o.raised
    THEN Raise(o.exc, o.msg)
    ELSE IF o.status_code = 204
    THEN JSONResponse(PyNone, 204)
    ELSE IF IsInfix(<<"application/json">>, o.content_type)
    THEN json_branch(o)
    ELSE JSONResponse(
             PyDict(<<[k |-> <<"result">>, val |-> PyStr(text_of(o.body))]>>),
             o.status_code)

\* try_block with the 204 rule after the JSON rule.
try_block_json_first(o) ==
    IF o.raised
    THEN Raise(o.exc, o.msg)
    ELSE IF IsInfix(<<"application/json">>, o.content_type)
            /\ ~json_branch(o).raised
    THEN json_branch(o)
    ELSE IF o.status_code = 204
    THEN JSONResponse(PyNone, 204)
    ELSE JSONResponse(
             PyDict(<<[k |-> <<"result">>, val |-> PyStr(text_of(o.body))]>>),
             o.status_code)

\* Lines 68-92: the try block once the awaited call has ended as o.
try_block(o) ==
    IF o.raised
    THEN Raise(o.exc, o.msg)
    ELSE IF o.status_code = 204
    THEN JSONResponse(PyNone, 204)
    ELSE IF IsInfix(<<"application/json">>, o.content_type)
            /\ ~json_branch(o).raised
    THEN json_branch(o)
    ELSE JSONResponse(
             PyDict(<<[k |-> <<"result">>, val |-> PyStr(text_of(o.body))]>>),
             o.status_code)

\* except_clauses that takes every transport failure for a connection
\* failure.
except_clauses_transport(c, exc, msg) ==
    IF isinstance(exc, "TransportError")
    THEN HTTPException(503,
             <<"Cannot connect to PowerDNS API at ">> \o c.url
                 \o <<": ">> \o msg)
    ELSE IF isinstance(exc, "TimeoutException")
    THEN HTTPException(504, <<"PowerDNS API request timed out">>)
    ELSE HTTPException(500, msg)

\* Lines 94-106: the except clauses, in their order.
except_clauses(c, exc, msg) ==
    IF isinstance(exc, "ConnectError")
    THEN HTTPException(503,
             <<"Cannot connect to PowerDNS API at ">> \o c.url
                 \o <<": ">> \o msg)
    ELSE IF isinstance(exc, "TimeoutException")
    THEN HTTPException(504, <<"PowerDNS API request timed out">>)
    ELSE HTTPException(500, msg)

\* proxy_response without the last except clause: the failure reaches the
\* server's error middleware.
proxy_response_no_catch_all(c, o) ==
    LET t == try_block(o)
    IN  IF ~t.raised
        THEN t.resp
        ELSE IF isinstance(t.exc, "ConnectError")
                \/ isinstance(t.exc, "TimeoutException")
        THEN except_clauses(c, t.exc, t.msg)
        ELSE [status_code |-> 500,
              content     |-> PyStr(<<"Internal Server Error">>),
              via         |-> "ServerErrorMiddleware"]

\* Lines 68-106: the response of the handler.
proxy_response(c, o) ==
    LET t == try_block(o)
    IN  IF t.raised THEN except_clauses(c, t.exc, t.msg) ELSE t.resp

\* cfg read again from the environment at each use.
cfg_reread(r) == get_pdns_config(env)

\* The local variable cfg of invocation r.
cfg_of(r) == cfg[r]

\* Lines 50-55: the handler starts on inbound request q.
Begin(r, inbound) ==
    /\ pc[r] = "idle"
    /\ \E q \in inbound :
        LET c == get_pdns_config(env)
        IN  /\ request' = [request EXCEPT ![r] = q]
            /\ cfg' = [cfg EXCEPT ![r] = c]
            /\ target_url' = [target_url EXCEPT ![r] =
                   target_url_of(c, q.path, q.query)]
    /\ start_env' = [start_env EXCEPT ![r] = env]
    /\ pc' = [pc EXCEPT ![r] = "body"]
    /\ UNCHANGED <<env, sent, upstream, responses, config_resp, config_env>>

\* Lines 57-75: the body has been read; the outbound request is issued.
ReadBodyAndSend(r) ==
    /\ pc[r] = "body"
    /\ sent' = [sent EXCEPT ![r] =
           client_request(sent[r], request[r].method, target_url[r],
                          headers(cfg_of(r), request[r]), request[r].body)]
    /\ pc' = [pc EXCEPT ![r] = "awaiting"]
    /\ UNCHANGED <<env, request, cfg, target_url, upstream, responses,
                   start_env, config_resp, config_env>>

\* Lines 70-106: the awaited call ends as o (a response, a failure, or the
\* 30 second timeout) and the handler answers.
Complete(r, outcomes) ==
    /\ pc[r] = "awaiting"
    /\ \E o \in outcomes :
        /\ upstream' = [upstream EXCEPT ![r] = o]
        /\ responses' = [responses EXCEPT ![r] =
               Append(responses[r], proxy_response(cfg_of(r), o))]
    /\ pc' = [pc EXCEPT ![r] = "done"]
    /\ UNCHANGED <<env, request, cfg, target_url, sent, start_env,
                   config_resp, config_env>>

(***************************************************************************)
(* GET /api/config.                                                        *)
(***************************************************************************)
\* api_config answering from a configuration read once, at import.
api_config_at_import(e) ==
    LET c == get_pdns_config(<<>>)
    IN  [n \in {"server_id"} |-> c.server_id]

api_config(e) ==
    LET c == get_pdns_config(e)
    IN  [n \in {"server_id"} |-> c.server_id]

ApiConfig ==
    /\ config_resp' = api_config(env)
    /\ config_env' = env
    /\ UNCHANGED <<env, pc, request, cfg, target_url, sent, upstream,
                   responses, start_env>>

(***************************************************************************)
(* The process environment changes (the operator, a test's monkeypatch).   *)
(***************************************************************************)
SetEnv(names, values) ==
    /\ \E n \in names : \E x \in values[n] : env' = setenv(env, n, x)
    /\ UNCHANGED <<pc, request, cfg, target_url, sent, upstream, responses,
                   start_env, config_resp, config_env>>

UnsetEnv(names) ==
    /\ \E n \in names \cap DOMAIN env : env' = unsetenv(env, n)
    /\ UNCHANGED <<pc, request, cfg, target_url, sent, upstream, responses,
                   start_env, config_resp, config_env>>

(***************************************************************************)
(* The inputs the model draws from.                                        *)
(***************************************************************************)
UrlPlain == <<"http://pdns:8081">>
UrlSlashes == <<"http://pdns:8081", "/", "/">>
UrlOther == <<"http://ns2:8081", "/">>
KeySecret == <<"s3cret">>
KeyOther == <<"rotated">>
ServerTest1 == <<"test1">>

\* The environments a process can be started in.
envs(names, values) ==
    UNION {[S -> UNION {values[n] : n \in S}] : S \in SUBSET names}

well_typed(e, values) == \A n \in DOMAIN e : e[n] \in values[n]

StartValues ==
    [n \in EnvNames |->
        CASE n = "PDNS_API_URL" -> {UrlPlain, UrlSlashes}
          [] n = "PDNS_API_KEY" -> {KeySecret}
          [] OTHER -> {ServerTest1}]

StartEnvs ==
    {e \in envs({"PDNS_API_URL", "PDNS_API_KEY"}, StartValues) :
        well_typed(e, StartValues)}

InboundHeaders ==
    {<<>>,
     [n \in {"X-API-Key", "Content-Type"} |->
        IF n = "X-API-Key" THEN <<"evil">> ELSE <<"text/plain">>]}

Inbound ==
    [method  : Methods,
     path    : {<<"zones">>, <<"servers", "/", "localhost", "/", "zones">>},
     query   : {<<>>, <<"foo=bar", "&", "a=1">>},
     body    : {<<>>, <<"{\"name\":\"example.org.\"}">>},
     headers : InboundHeaders]

JsonObjectA1 == <<"{", Quote, "a", Quote, ":", "1", "}">>

UpstreamBodies ==
    {<<>>, JsonObjectA1, <<"[", "1", ",", "NaN", "]">>,
     <<Quote, SurrogateEscape, Quote>>, <<"zone file contents">>,
     <<"zone", InvalidByte>>}

UpstreamResponses ==
    [raised       : {FALSE},
     exc          : {""},
     msg          : {<<>>},
     status_code  : {200, 204, 404, 500},
     content_type : {<<>>, <<"text/plain">>, <<"application/json">>,
                     <<"application/json", "; charset=utf-8">>},
     body         : UpstreamBodies]

UpstreamFailures ==
    [raised       : {TRUE},
     exc          : ExcClasses,
     msg          : {<<>>, <<"All connection attempts failed">>},
     status_code  : {0},
     content_type : {<<>>},
     body         : {<<>>}]

Outcomes == UpstreamResponses \cup UpstreamFailures

(***************************************************************************)
(* One invocation of the proxy handler over all its inputs.                *)
(***************************************************************************)
Idle ==
    /\ pc = [r \in Reqs |-> "idle"]
    /\ request = [r \in Reqs |-> NoRequest]
    /\ cfg = [r \in Reqs |-> get_pdns_config(<<>>)]
    /\ target_url = [r \in Reqs |-> <<>>]
    /\ sent = [r \in Reqs |-> <<>>]
    /\ upstream = [r \in Reqs |-> NoOutcome]
    /\ responses = [r \in Reqs |-> <<>>]
    /\ start_env = [r \in Reqs |-> <<>>]
    /\ config_resp = <<>>
    /\ config_env = <<>>

Init ==
    /\ env \in StartEnvs
    /\ Idle

Next ==
    \/ Begin(1, Inbound)
    \/ ReadBodyAndSend(1)
    \/ Complete(1, Outcomes)

Spec == Init /\ [][Next]_vars

\* Only the outbound call keeps a request waiting: the event loop runs the
\* handler on, and the awaited call ends with an answer, a failure or the
\* timeout of the client (timeout=30.0).
FairSpec ==
    /\ Spec
    /\ WF_vars(ReadBodyAndSend(1))
    /\ WF_vars(Complete(1, Outcomes))

(***************************************************************************)
(* The server over time: the environment changes between and during        *)
(* requests, /api/config is asked again and again, a proxy invocation      *)
(* ends and the next one begins.                                           *)
(***************************************************************************)

\* The invocation has returned; its locals are gone.
Finish(r) ==
    /\ pc[r] = "done"
    /\ pc' = [pc EXCEPT ![r] = "idle"]
    /\ request' = [request EXCEPT ![r] = NoRequest]
    /\ cfg' = [cfg EXCEPT ![r] = get_pdns_config(<<>>)]
    /\ target_url' = [target_url EXCEPT ![r] = <<>>]
    /\ sent' = [sent EXCEPT ![r] = <<>>]
    /\ upstream' = [upstream EXCEPT ![r] = NoOutcome]
    /\ responses' = [responses EXCEPT ![r] = <<>>]
    /\ start_env' = [start_env EXCEPT ![r] = <<>>]
    /\ UNCHANGED <<env, config_resp, config_env>>

EnvValues ==
    [n \in EnvNames |->
        CASE n = "PDNS_API_URL" -> {UrlPlain, UrlSlashes}
          [] n = "PDNS_API_KEY" -> {KeySecret, KeyOther}
          [] OTHER -> {ServerTest1, <<>>}]

OneInbound ==
    {[method |-> "GET", path |-> <<"zones">>, query |-> <<>>,
      body |-> <<>>, headers |-> <<>>]}

OneOutcome ==
    {o \in UpstreamResponses :
        /\ o.status_code = 200
        /\ o.content_type = <<"application/json">>
        /\ o.body = JsonObjectA1}

InitEnv ==
    /\ env = <<>>
    /\ Idle

NextEnv ==
    \/ SetEnv(EnvNames, EnvValues)
    \/ UnsetEnv(EnvNames)
    \/ ApiConfig
    \/ Begin(1, OneInbound)
    \/ ReadBodyAndSend(1)
    \/ Complete(1, OneOutcome)
    \/ Finish(1)

SpecEnv == InitEnv /\ [][NextEnv]_vars

(***************************************************************************)
(* Concurrent invocations of the proxy handler while PDNS_API_URL and      *)
(* PDNS_API_KEY change.                                                    *)
(***************************************************************************)
ConcNames == {"PDNS_API_URL", "PDNS_API_KEY"}

ConcValues ==
    [n \in ConcNames |->
        IF n = "PDNS_API_URL" THEN {UrlSlashes, UrlOther}
        ELSE {KeySecret, KeyOther}]

ConcInbound ==
    {[method |-> "GET", path |-> <<"zones">>, query |-> <<>>,
      body |-> <<>>, headers |-> <<>>],
     [method |-> "POST", path |-> <<"servers">>, query |-> <<"foo=bar">>,
      body |-> <<"{\"name\":\"example.org.\"}">>, headers |-> <<>>]}

ConcOutcomes ==
    OneOutcome \cup
    {o \in UpstreamFailures : o.exc = "ConnectError" /\ o.msg # <<>>}

InitConc ==
    /\ env = [n \in ConcNames |->
                IF n = "PDNS_API_URL" THEN UrlSlashes ELSE KeySecret]
    /\ Idle

NextConc ==
    \/ SetEnv(ConcNames, ConcValues)
    \/ \E r \in Reqs :
        \/ Begin(r, ConcInbound)
        \/ ReadBodyAndSend(r)
        \/ Complete(r, ConcOutcomes)
        \/ Finish(r)

SpecConc == InitConc /\ [][NextConc]_vars

(***************************************************************************)
(* What the claims speak of.                                               *)
(***************************************************************************)
Issued(r) == pc[r] \in {"awaiting", "done"}

Done(r) == pc[r] = "done"

\* The response invocation r returned.
response(r) == responses[r][1]

\* The detail of an HTTPException's response.
detail(resp) == resp.content.items[1].val.v

\* The configured base URL, API key and server id of an environment, read
\* off the environment itself.
ConfiguredUrl(e) ==
    IF "PDNS_API_URL" \in DOMAIN e THEN e["PDNS_API_URL"]
    ELSE <<"http://localhost:8081">>

ConfiguredKey(e) ==
    IF "PDNS_API_KEY" \in DOMAIN e THEN e["PDNS_API_KEY"]
    ELSE <<"changeme">>

ConfiguredServerId(e) ==
    IF "PDNS_SERVER_ID" \in DOMAIN e THEN e["PDNS_SERVER_ID"]
    ELSE <<"localhost">>

Slashes(k) == [i \in 1..k |-> "/"]

\* b is url with its trailing slashes stripped.
IsStripped(b, url) ==
    /\ b = <<>> \/ b[Len(b)] # "/"
    /\ \E k \in 0..Len(url) : url = b \o Slashes(k)

\* The part of the outbound URL after the base.
UrlSuffix(q) ==
    <<"/api/v1/">> \o q.path
        \o (IF q.query = <<>> THEN <<>> ELSE <<"?">> \o q.query)

\* The base the outbound URL of invocation r starts with.
ContactedBase(r) ==
    SubSeq(target_url[r], 1, Len(target_url[r]) - Len(UrlSuffix(request[r])))

JsonContentType(o) == IsInfix(<<"application/json">>, o.content_type)

WrappedText(o) ==
    PyDict(<<[k |-> <<"result">>, val |-> PyStr(text_of(o.body))]>>)

(***************************************************************************)
(* C1: every inbound request that reaches the outbound call issues         *)
(* exactly one outbound request, with the inbound method, to               *)
(* {base}/api/v1/{p}, with the inbound body unchanged; before the call     *)
(* none is issued, and also after a connection failure, a timeout or any   *)
(* other failure no second one is.                                         *)
(***************************************************************************)
C1_ExactlyOneOutbound ==
    \A r \in Reqs :
        /\ pc[r] \in {"idle", "body"} => sent[r] = <<>>
        /\ Issued(r) =>
            /\ Len(sent[r]) = 1
            /\ sent[r][1].method = request[r].method
            /\ sent[r][1].method \in Methods
            /\ sent[r][1].content = request[r].body
            /\ LET prefix == ContactedBase(r) \o <<"/api/v1/">>
                                 \o request[r].path
               IN  /\ IsStripped(ContactedBase(r),
                                 ConfiguredUrl(start_env[r]))
                   /\ SubSeq(sent[r][1].url, 1, Len(prefix)) = prefix

C1_Witness ==
    \E r \in Reqs :
        /\ Done(r)
        /\ upstream[r].raised
        /\ upstream[r].exc = "ReadTimeout"
        /\ request[r].method = "PATCH"
        /\ request[r].body # <<>>
        /\ Len(sent[r]) = 1

(***************************************************************************)
(* C2: the outbound headers are X-API-Key with the configured key and      *)
(* Accept: application/json, plus Content-Type: application/json exactly   *)
(* when the inbound body is non-empty; nothing else, whatever the inbound  *)
(* headers are.                                                            *)
(***************************************************************************)
C2_HeadersFromConfigAndBody ==
    \A r \in Reqs :
        Issued(r) =>
            LET h == sent[r][1].headers
            IN  /\ DOMAIN h =
                      {"X-API-Key", "Accept"} \cup
                      (IF request[r].body # <<>> THEN {"Content-Type"}
                       ELSE {})
                /\ h["X-API-Key"] = ConfiguredKey(start_env[r])
                /\ h["Accept"] = <<"application/json">>
                /\ "Content-Type" \in DOMAIN h =>
                      h["Content-Type"] = <<"application/json">>

C2_Witness ==
    \E r \in Reqs :
        /\ Issued(r)
        /\ request[r].body = <<>>
        /\ DOMAIN request[r].headers = {"X-API-Key", "Content-Type"}
        /\ request[r].headers["X-API-Key"] = <<"evil">>
        /\ sent[r][1].headers =
              [n \in {"X-API-Key", "Accept"} |->
                  IF n = "X-API-Key" THEN KeySecret
                  ELSE <<"application/json">>]

JsonAnswer(r) ==
    /\ Done(r)
    /\ ~upstream[r].raised
    /\ upstream[r].status_code # 204
    /\ JsonContentType(upstream[r])
    /\ ~json_loads(upstream[r].body).raised

PassedThrough(r) ==
    /\ Len(responses[r]) = 1
    /\ response(r).via = "JSONResponse"
    /\ response(r).status_code = upstream[r].status_code
    /\ response(r).content = json_loads(upstream[r].body).val

C4_AsClaimed ==
    \A r \in Reqs : JsonAnswer(r) => PassedThrough(r)

(***************************************************************************)
(* C4, amended: the same, for a body whose parsed value JSONResponse can    *)
(* serialise; a body that response.json() parses into a value it cannot    *)
(* serialise (one holding NaN or Infinity, which Python's parser accepts,  *)
(* or a string with an unpaired surrogate) is returned as                  *)
(* {"result": text} with the upstream's status code.  In both cases the    *)
(* answer has the upstream's own status and is never an error raised by    *)
(* the proxy.                                                              *)
(***************************************************************************)
C4_JsonPassthrough ==
    \A r \in Reqs :
        JsonAnswer(r) =>
            /\ response(r).via = "JSONResponse"
            /\ response(r).status_code = upstream[r].status_code
            /\ IF render_raises(json_loads(upstream[r].body).val)
               THEN response(r).content = WrappedText(upstream[r])
               ELSE PassedThrough(r)

C4_Witness ==
    \E r \in Reqs :
        /\ JsonAnswer(r)
        /\ upstream[r].status_code = 500
        /\ upstream[r].content_type = <<"application/json", "; charset=utf-8">>
        /\ upstream[r].body = JsonObjectA1
        /\ response(r).status_code = 500
        /\ response(r).via = "JSONResponse"
        /\ response(r).content =
              PyDict(<<[k |-> <<"a">>, val |-> PyInt("1")]>>)

(***************************************************************************)
(* C5: an upstream answer other than 204 whose content-type does not       *)
(* contain "application/json", or whose body fails to parse as JSON        *)
(* although it does, is returned as {"result": <body text>} with the       *)
(* upstream's status code; a parse failure gives no error response.        *)
(***************************************************************************)
C5_TextWrapping ==
    \A r \in Reqs :
        ( /\ Done(r)
          /\ ~upstream[r].raised
          /\ upstream[r].status_code # 204
          /\ \/ ~JsonContentType(upstream[r])
             \/ json_loads(upstream[r].body).raised ) =>
            /\ Len(responses[r]) = 1
            /\ response(r).via = "JSONResponse"
            /\ response(r).status_code = upstream[r].status_code
            /\ response(r).content = WrappedText(upstream[r])

C5_Witness ==
    \E r \in Reqs :
        /\ Done(r)
        /\ upstream[r].status_code = 200
        /\ upstream[r].content_type = <<"application/json">>
        /\ upstream[r].body = <<"zone file contents">>
        /\ response(r).status_code = 200
        /\ response(r).content =
              PyDict(<<[k |-> <<"result">>,
                        val |-> PyStr(<<"zone file contents">>)]>>)

(***************************************************************************)
(* C6: when the outbound call fails, a connection failure gives 503 with   *)
(* a detail containing the configured base URL, a timeout (also one while  *)
(* connecting) gives 504 with the fixed message, any other failure gives   *)
(* 500 with the failure's description; no failure gives a 2xx response.    *)
(***************************************************************************)
Timeouts == {"ConnectTimeout", "ReadTimeout", "WriteTimeout", "PoolTimeout"}

C6_FailureMapping ==
    \A r \in Reqs :
        (Done(r) /\ upstream[r].raised) =>
            /\ Len(responses[r]) = 1
            /\ response(r).via = "HTTPException"
            /\ response(r).status_code \notin 200..299
            /\ DOMAIN response(r).content.items = {1}
            /\ response(r).content.items[1].k = <<"detail">>
            /\ CASE upstream[r].exc = "ConnectError" ->
                      /\ response(r).status_code = 503
                      /\ IsInfix(ContactedBase(r), detail(response(r)))
                      /\ IsStripped(ContactedBase(r),
                                    ConfiguredUrl(start_env[r]))
                 [] upstream[r].exc \in Timeouts ->
                      /\ response(r).status_code = 504
                      /\ detail(response(r)) =
                            <<"PowerDNS API request timed out">>
                 [] OTHER ->
                      /\ response(r).status_code = 500
                      /\ detail(response(r)) = upstream[r].msg

C6_Witness ==
    \E r \in Reqs :
        /\ Done(r)
        /\ upstream[r].raised
        /\ upstream[r].exc = "ConnectTimeout"
        /\ response(r).status_code = 504

(***************************************************************************)
(* C7: the outbound URL is base + "/api/v1/" + p when the query string is  *)
(* empty and base + "/api/v1/" + p + "?" + q otherwise, q unchanged, where *)
(* base is the configured URL with its trailing slashes stripped.          *)
(***************************************************************************)
C7_TargetUrl ==
    \A r \in Reqs :
        pc[r] # "idle" =>
            /\ Len(target_url[r]) >= Len(UrlSuffix(request[r]))
            /\ target_url[r] = ContactedBase(r) \o UrlSuffix(request[r])
            /\ IsStripped(ContactedBase(r), ConfiguredUrl(start_env[r]))
            /\ Issued(r) => sent[r][1].url = target_url[r]

C7_Witness ==
    \E r \in Reqs :
        /\ Issued(r)
        /\ ConfiguredUrl(start_env[r]) = <<"http://pdns:8081", "/", "/">>
        /\ request[r].path = <<"zones">>
        /\ request[r].query = <<"foo=bar", "&", "a=1">>
        /\ sent[r][1].url =
              <<"http://pdns:8081", "/api/v1/", "zones", "?", "foo=bar",
                "&", "a=1">>

(***************************************************************************)
(* C8: the configuration is read from the environment at every request:    *)
(* GET /api/config answers exactly {"server_id": s}, s the value of        *)
(* PDNS_SERVER_ID at that moment or "localhost" when it is unset, never    *)
(* the API key or the base URL; with no variable set get_pdns_config       *)
(* gives url "http://localhost:8081", key "changeme", server_id            *)
(* "localhost".                                                            *)
(***************************************************************************)
C8_ConfigFresh ==
    /\ config_resp # <<>> =>
        /\ DOMAIN config_resp = {"server_id"}
        /\ config_resp["server_id"] = ConfiguredServerId(config_env)
    /\ (config_resp # <<>> /\ config_env = <<>>) =>
            config_resp["server_id"] = <<"localhost">>
    /\ \A r \in Reqs :
        pc[r] # "idle" =>
            /\ DOMAIN cfg[r] = {"url", "key", "server_id"}
            /\ IsStripped(cfg[r].url, ConfiguredUrl(start_env[r]))
            /\ cfg[r].key = ConfiguredKey(start_env[r])
            /\ cfg[r].server_id = ConfiguredServerId(start_env[r])
            /\ start_env[r] = <<>> =>
                  cfg[r] = [url       |-> <<"http://localhost:8081">>,
                            key       |-> <<"changeme">>,
                            server_id |-> <<"localhost">>]

C8_Witness ==
    /\ config_resp = [n \in {"server_id"} |-> <<"test1">>]
    /\ DOMAIN config_env = EnvNames
    /\ config_env["PDNS_API_KEY"] = KeyOther
    /\ env = <<>>
    /\ pc[1] = "body"
    /\ cfg[1] = [url       |-> <<"http://localhost:8081">>,
                 key       |-> <<"changeme">>,
                 server_id |-> <<"localhost">>]

(***************************************************************************)
(* C9: every proxy request that has begun completes, with exactly one      *)
(* response, which is the 204 response, the JSON passthrough, the          *)
(* {"result": text} wrapping or a 503/504/500 error with a detail; once    *)
(* given, the response stays the only one.                                 *)
(***************************************************************************)
OneOfTheResponses(r) ==
    LET resp == response(r)
        o == upstream[r]
    IN  \/ resp = [status_code |-> 204, content |-> PyNone,
                   via |-> "JSONResponse"]
        \/ /\ resp.via = "JSONResponse"
           /\ resp.status_code = o.status_code
           /\ ~json_loads(o.body).raised
           /\ resp.content = json_loads(o.body).val
        \/ /\ resp.via = "JSONResponse"
           /\ resp.status_code = o.status_code
           /\ resp.content = WrappedText(o)
        \/ /\ resp.via = "HTTPException"
           /\ resp.status_code \in {503, 504, 500}
           /\ resp.content.t = "dict"
           /\ DOMAIN resp.content.items = {1}
           /\ resp.content.items[1].k = <<"detail">>
           /\ resp.content.items[1].val.t = "str"

C10_OneSnapshot ==
    /\ \A r \in Reqs :
        /\ pc[r] # "idle" =>
            /\ IsStripped(cfg[r].url, ConfiguredUrl(start_env[r]))
            /\ cfg[r].key = ConfiguredKey(start_env[r])
            /\ target_url[r] = cfg[r].url \o UrlSuffix(request[r])
        /\ Issued(r) =>
            /\ sent[r][1].url = target_url[r]
            /\ sent[r][1].headers["X-API-Key"] = cfg[r].key
            /\ sent[r][1].content = request[r].body
        /\ (Done(r) /\ upstream[r].raised
                    /\ upstream[r].exc = "ConnectError") =>
            detail(response(r)) =
                <<"Cannot connect to PowerDNS API at ">> \o ContactedBase(r)
                    \o <<": ">> \o upstream[r].msg
    /\ \A r1, r2 \in Reqs :
        ( /\ Done(r1) /\ Done(r2)
          /\ request[r1] = request[r2]
          /\ start_env[r1] = start_env[r2]
          /\ upstream[r1] = upstream[r2] ) =>
            /\ responses[r1] = responses[r2]
            /\ sent[r1] = sent[r2]

C10_Witness ==
    \E r1, r2 \in Reqs :
        /\ r1 # r2
        /\ Done(r1)
        /\ upstream[r1].raised
        /\ response(r1).status_code = 503
        /\ IsInfix(<<"http://pdns:8081", ": ">>, detail(response(r1)))
        /\ sent[r1][1].headers["X-API-Key"] = KeySecret
        /\ env["PDNS_API_URL"] = UrlOther
        /\ env["PDNS_API_KEY"] = KeyOther
        /\ pc[r2] = "awaiting"
        /\ sent[r2][1].headers["X-API-Key"] = KeyOther
        /\ cfg[r2].url = <<"http://ns2:8081">>

=============================================================================
